---------------------------- MODULE Spec2Model ----------------------------
(***************************************************************************)
(* A model of the two fine-tuning launcher scripts custom_copa_ft.py and   *)
(* custom_ner.py: the label alignment of the token-classification script,  *)
(* the job submitter under `if __name__ == "__main__"`, and the training   *)
(* entrypoint main(submit_arguments) of both scripts.                      *)
(***************************************************************************)
EXTENDS Integers, Sequences, FiniteSets, TLC

(***************************************************************************)
(* Python's None and an optional value: None is the empty tuple, a value v *)
(* is the one-element tuple <<v>>.                                         *)
(***************************************************************************)
None == <<>>
Some(v) == <<v>>
Val(o) == o[1]

\* Bounds of the model.
MaxWords == 2
MaxTokens == 4
NumConcurrent == 2
MaxRuns == 3
MaxMetric == 9
MaxFailEpoch == 2
MaxRestarts == 1

VARIABLES
  \* Part 1, align_labels_with_tokens
  labels,        \* the word-level tags of one example (Python list, 0-based)
  word_ids,      \* the tokenizer's word id per token: Some(w) or None
  new_labels,    \* the value align_labels_with_tokens returned
  apc,           \* "ready" before the call, "done" after it
  \* Part 2, the job submitter
  script,          \* which of the two scripts is run
  debug,           \* the script's `debug` literal
  environ,         \* per process: os.environ.get("ACCOUNT_INFO"), None if unset
  pc,              \* per process: how far the block has run
  error,           \* per process: the exception that ended it, "" if none
  read_count,      \* per process: the counter update_submission_log read
  run_count,       \* per process: the value update_submission_log returned
  experiments_dir, \* per process: the run's directory once computed
  parameters,      \* per process: the `parameters` dict once built
  log,             \* the run-count log: job name -> counter
  fs,              \* the directories that exist
  queue,           \* the jobs handed to executor.submit, in order
  obtained,        \* history: the run counters returned, in order
  usedDirs,        \* history: the directories passed to mkdir, in order
  \* Part 3, the training entrypoint main(submit_arguments)
  variant,          \* which script's main runs
  submit_arguments, \* main's argument, the submitter's job_input
  tpc,              \* "setup", "TrainingLoop", "Stopped", "Completed", "failed"
  ip,               \* during setup: the next statement of Program(variant)
  failedAt,         \* the statement that raised, "" if none
  stages,           \* history: the stages completed by this process, in order
  output_dir,       \* data_args.output_dir once parsed
  resume_from_checkpoint, \* training_args.resume_from_checkpoint
  train_arg,        \* the resume_from_checkpoint argument given to train()
  checkpoints,      \* output_dir on disk: checkpoint number -> attempt that wrote it
  attempt,          \* how many times the job was resubmitted
  epoch,            \* epochs trained
  best_metric,      \* the trainer state's best_metric
  patience_counter, \* EarlyStoppingCallback.early_stopping_patience_counter
  startEpoch,       \* history: the epoch this process's loop started from
  cpAtTrain,        \* history: the checkpoints on disk when train() was called
  evaluations,      \* history: evaluations run by this process's loop
  bestSeen,         \* history: the highest metric evaluated so far
  streak            \* history: evaluations since the metric last improved

alignVars == <<labels, word_ids, new_labels, apc>>

submitVars == <<script, debug, environ, pc, error, read_count, run_count,
                experiments_dir, parameters, log, fs, queue, obtained, usedDirs>>

trainVars == <<variant, submit_arguments, tpc, ip, failedAt, stages, output_dir,
               resume_from_checkpoint, train_arg, checkpoints, attempt, epoch,
               best_metric, patience_counter, startEpoch, cpAtTrain,
               evaluations, bestSeen, streak>>

vars == <<alignVars, submitVars, trainVars>>

(***************************************************************************)
(* Part 1: align_labels_with_tokens (custom_ner.py).                       *)
(***************************************************************************)
\* The label given to special tokens.
IgnoreIndex == -100

\* The tag codes the inputs are drawn from: the benchmark's seven (O and the
\* B-/I- pairs of PER, ORG, LOC) and a code 9 beyond its tag set.
LabelCodes == (0..6) \cup {9}

\* labels[word_id] of a Python list held as a 1-based sequence.
PyIndex(list, i) == list[i + 1]

ContinuationLabelUnchanged(label) == label

\* "If the label is B-XXX we change it to I-XXX"
ContinuationLabel(label) == IF label % 2 = 1 THEN label + 1 ELSE label

\* The body of `for word_id in word_ids`, from token i on, with the loop's
\* two locals.
RECURSIVE AlignLoop(_, _, _, _, _)
AlignLoop(lbls, wids, i, current_word, acc) ==
  IF i > Len(wids) THEN acc
  ELSE LET word_id == wids[i] IN
    IF word_id # current_word
    THEN AlignLoop(lbls, wids, i + 1, word_id,
                   Append(acc, IF word_id = None THEN IgnoreIndex
                               ELSE PyIndex(lbls, Val(word_id))))
    ELSE IF word_id = None
    THEN AlignLoop(lbls, wids, i + 1, current_word, Append(acc, IgnoreIndex))
    ELSE AlignLoop(lbls, wids, i + 1, current_word,
                   Append(acc, ContinuationLabel(PyIndex(lbls, Val(word_id)))))

align_labels_with_tokens(lbls, wids) == AlignLoop(lbls, wids, 1, None, <<>>)

SeqsUpTo(S, lo, hi) == UNION {[1..n -> S] : n \in lo..hi}

WordIdsOf(nWords) == {None} \cup {Some(w) : w \in 0..(nWords - 1)}

AlignInit ==
  /\ labels \in SeqsUpTo(LabelCodes, 1, MaxWords)
  /\ word_ids \in SeqsUpTo(WordIdsOf(Len(labels)), 0, MaxTokens)
  /\ new_labels = <<>>
  /\ apc = "ready"

AlignOff ==
  /\ labels = <<>>
  /\ word_ids = <<>>
  /\ new_labels = <<>>
  /\ apc = "off"

\* tokenize_and_align_labels calls the function on one example.
AlignCall ==
  /\ apc = "ready"
  /\ new_labels' = align_labels_with_tokens(labels, word_ids)
  /\ apc' = "done"
  /\ UNCHANGED <<labels, word_ids, submitVars, trainVars>>

(***************************************************************************)
(* Part 2: the job submitter, the `if __name__ == "__main__"` block of     *)
(* both scripts.  Several submitter processes share the run-count log and  *)
(* the file system.                                                        *)
(***************************************************************************)
\* Process p is the p-th run of the script.
Procs == 1..MaxRuns

Scripts == {"copa", "ner"}

\* Python's bool * str.
BoolTimesStr(b, s) == IF b THEN s ELSE ""

EndsWith(s, suffix) ==
  /\ Len(s) >= Len(suffix)
  /\ SubSeq(s, Len(s) - Len(suffix) + 1, Len(s)) = suffix

StartsWith(s, prefix) ==
  /\ Len(s) >= Len(prefix)
  /\ SubSeq(s, 1, Len(prefix)) = prefix

BaseJobName(sc) ==
  IF sc = "copa" THEN "convergence_finetune_copa" ELSE "convergence_ner_adapter"

JobName(sc, d) == BoolTimesStr(d, "debug_") \o BaseJobName(sc)

JobNames == {JobName(sc, d) : sc \in Scripts, d \in BOOLEAN}

PartitionNoSuffix(d) == "gpu_p100"

Partition(d) == "gpu_p100" \o BoolTimesStr(d, "_debug")

ProductionTime(sc) == IF sc = "copa" THEN "02:30:00" ELSE "05:30:00"

SlurmTime(sc, partition) ==
  IF EndsWith(partition, "debug") THEN "01:00:00" ELSE ProductionTime(sc)

Clusters(partition) ==
  IF StartsWith(partition, "gpu_p100") \/ StartsWith(partition, "gpu_v100")
  THEN "genius" ELSE "wice"

MailUser(partition) ==
  IF EndsWith(partition, "debug") THEN "" ELSE "stef.accou@student.kuleuven.be"

\* os.environ.get("ACCOUNT_INFO", "")
EnvironLookupDefault(env) ==
  [ok |-> TRUE, value |-> IF env = None THEN Some("") ELSE env]

\* os.environ["ACCOUNT_INFO"]: a KeyError when the variable is unset.
EnvironLookup(env) ==
  IF env = None THEN [ok |-> FALSE, value |-> None]
  ELSE [ok |-> TRUE, value |-> env]

\* The `parameters` dict.
Parameters(sc, d, account) ==
  LET partition == Partition(d) IN
  [slurm_partition |-> partition,
   slurm_time      |-> SlurmTime(sc, partition),
   slurm_job_name  |-> JobName(sc, d),
   clusters        |-> Clusters(partition),
   account         |-> account,
   nodes           |-> 1,
   cpus_per_gpu    |-> 16,
   gpus_per_node   |-> 1,
   mail_type       |-> "BEGIN,END,FAIL",
   mail_user       |-> MailUser(partition)]

Digits == <<"0", "1", "2", "3", "4", "5", "6", "7", "8", "9">>

RECURSIVE Decimal(_)
Decimal(n) ==
  IF n < 10 THEN Digits[n + 1] ELSE Decimal(n \div 10) \o Digits[(n % 10) + 1]

RECURSIVE ZeroPad(_, _)
ZeroPad(s, width) == IF Len(s) >= width THEN s ELSE ZeroPad("0" \o s, width)

\* f"{run_count:03d}" of a run count >= 0.
Format03d(n) == ZeroPad(Decimal(n), 3)

\* pathlib's `/`.
PathJoin(a, b) == a \o "/" \o b

\* find_master(): the directory 'Master_thesis'.
MasterDir == "Master_thesis"

ExperimentsRoot == PathJoin(MasterDir, "experiment_folder")

ExperimentDirNoCount(job_name, count) == PathJoin(ExperimentsRoot, job_name)

\* experiments_dir / job_name / f"{run_count:03d}"
ExperimentDir(job_name, count) ==
  PathJoin(PathJoin(ExperimentsRoot, job_name), Format03d(count))

ExistOkFalse == FALSE

\* mkdir(parents=True, exist_ok=True)
ExistOk == TRUE

\* Path.mkdir: a FileExistsError for an existing directory unless exist_ok.
\* (The parents it also creates are not recorded.)
Mkdir(files, path, exist_ok) ==
  IF path \in files
  THEN [ok |-> exist_ok, files |-> files]
  ELSE [ok |-> TRUE, files |-> files \cup {path}]

\* update_submission_log: the counter it returns for the counter it read.
NextRunCount(count) == count + 1

SubmitterProgramEnvFirst ==
  <<"parameters", "update_submission_log", "mkdir", "submit">>

\* The statements of the block that act on shared state, in source order.
SubmitterProgram == <<"update_submission_log", "mkdir", "parameters", "submit">>

\* The statement after stmt, "done" after the last.
After(stmt) ==
  LET i == CHOOSE k \in 1..Len(SubmitterProgram) : SubmitterProgram[k] = stmt
  IN IF i = Len(SubmitterProgram) THEN "done" ELSE SubmitterProgram[i + 1]

\* pc[p] is the statement process p runs next ("log_write" inside
\* update_submission_log), or "done", "failed", "crashed", "off".
Active(p) == pc[p] \in {"update_submission_log", "log_write", "mkdir",
                        "parameters", "submit"}

\* What the shared state and the locals are before any process runs.
SubmitStart ==
  /\ script \in Scripts
  /\ debug \in BOOLEAN
  /\ error = [p \in Procs |-> ""]
  /\ read_count = [p \in Procs |-> None]
  /\ run_count = [p \in Procs |-> None]
  /\ experiments_dir = [p \in Procs |-> None]
  /\ parameters = [p \in Procs |-> None]
  /\ log = [j \in JobNames |-> 0]
  /\ fs = {}
  /\ queue = <<>>
  /\ obtained = <<>>
  /\ usedDirs = <<>>

\* NumConcurrent processes are launched; the others never run.
SubmitInit ==
  /\ SubmitStart
  /\ environ \in {e \in [Procs -> {None, Some("lp_account")}] :
                    \A p \in Procs : p > NumConcurrent => e[p] = None}
  /\ pc = [p \in Procs |->
             IF p <= NumConcurrent THEN SubmitterProgram[1] ELSE "off"]

\* MaxRuns processes are launched.
SeqSubmitInit ==
  /\ SubmitStart
  /\ environ \in [Procs -> {None, Some("lp_account")}]
  /\ pc = [p \in Procs |-> SubmitterProgram[1]]

SubmitOff ==
  /\ script = "copa"
  /\ debug = TRUE
  /\ environ = [p \in Procs |-> None]
  /\ pc = [p \in Procs |-> "off"]
  /\ error = [p \in Procs |-> ""]
  /\ read_count = [p \in Procs |-> None]
  /\ run_count = [p \in Procs |-> None]
  /\ experiments_dir = [p \in Procs |-> None]
  /\ parameters = [p \in Procs |-> None]
  /\ log = [j \in JobNames |-> 0]
  /\ fs = {}
  /\ queue = <<>>
  /\ obtained = <<>>
  /\ usedDirs = <<>>

\* update_submission_log, first half: read the job's counter from the log.
LogRead(p) ==
  /\ pc[p] = "update_submission_log"
  /\ read_count' = [read_count EXCEPT ![p] = Some(log[JobName(script, debug)])]
  /\ pc' = [pc EXCEPT ![p] = "log_write"]
  /\ UNCHANGED <<script, debug, environ, error, run_count, experiments_dir,
                 parameters, log, fs, queue, obtained, usedDirs,
                 alignVars, trainVars>>

\* update_submission_log, second half: write the incremented counter back
\* and return it.
LogWrite(p) ==
  /\ pc[p] = "log_write"
  /\ LET n == NextRunCount(Val(read_count[p])) IN
       /\ log' = [log EXCEPT ![JobName(script, debug)] = n]
       /\ run_count' = [run_count EXCEPT ![p] = Some(n)]
       /\ obtained' = Append(obtained, n)
  /\ pc' = [pc EXCEPT ![p] = After("update_submission_log")]
  /\ UNCHANGED <<script, debug, environ, error, read_count, experiments_dir,
                 parameters, fs, queue, usedDirs,
                 alignVars, trainVars>>

\* experiments_dir = experiments_dir / job_name / f"{run_count:03d}" and
\* experiments_dir.mkdir(parents=True, exist_ok=True)
MakeDir(p) ==
  /\ pc[p] = "mkdir"
  /\ LET dir == ExperimentDir(JobName(script, debug), Val(run_count[p]))
         made == Mkdir(fs, dir, ExistOk)
     IN /\ experiments_dir' = [experiments_dir EXCEPT ![p] = Some(dir)]
        /\ usedDirs' = Append(usedDirs, dir)
        /\ fs' = made.files
        /\ pc' = [pc EXCEPT ![p] = IF made.ok THEN After("mkdir") ELSE "failed"]
        /\ error' = [error EXCEPT ![p] =
                       IF made.ok THEN "" ELSE "FileExistsError"]
  /\ UNCHANGED <<script, debug, environ, read_count, run_count, parameters,
                 log, queue, obtained,
                 alignVars, trainVars>>

\* partition = ... and parameters = {...}, which reads os.environ.
BuildParameters(p) ==
  /\ pc[p] = "parameters"
  /\ LET account == EnvironLookup(environ[p]) IN
       IF account.ok
       THEN /\ parameters' = [parameters EXCEPT ![p] =
                                Some(Parameters(script, debug, Val(account.value)))]
            /\ pc' = [pc EXCEPT ![p] = After("parameters")]
            /\ error' = error
       ELSE /\ parameters' = parameters
            /\ pc' = [pc EXCEPT ![p] = "failed"]
            /\ error' = [error EXCEPT ![p] = "KeyError"]
  /\ UNCHANGED <<script, debug, environ, read_count, run_count,
                 experiments_dir, log, fs, queue, obtained, usedDirs,
                 alignVars, trainVars>>

\* executor = submitit.AutoExecutor(folder=str(experiments_dir));
\* executor.update_parameters(**parameters); executor.submit(main, job_input)
Submit(p) ==
  /\ pc[p] = "submit"
  /\ queue' = Append(queue, [by         |-> p,
                             folder     |-> Val(experiments_dir[p]),
                             parameters |-> Val(parameters[p])])
  /\ pc' = [pc EXCEPT ![p] = After("submit")]
  /\ UNCHANGED <<script, debug, environ, error, read_count, run_count,
                 experiments_dir, parameters, log, fs, obtained, usedDirs,
                 alignVars, trainVars>>

\* The process dies between two statements.
Crash(p) ==
  /\ Active(p)
  /\ pc' = [pc EXCEPT ![p] = "crashed"]
  /\ UNCHANGED <<script, debug, environ, error, read_count, run_count,
                 experiments_dir, parameters, log, fs, queue, obtained, usedDirs,
                 alignVars, trainVars>>

\* Runs one after the other: process p runs once the processes before it
\* have ended.
Turn(p) == \A q \in Procs : q < p => pc[q] \in {"done", "failed", "crashed"}

(***************************************************************************)
(* Part 3: the training entrypoint main(submit_arguments) of both scripts, *)
(* run by the cluster, and the training loop of the trainer it configures. *)
(***************************************************************************)
NumTrainEpochs == 100
EarlyStoppingPatience == 10

\* The values an evaluation's monitored metric (acc, f1) is drawn from.
Metrics == 0..MaxMetric

\* list("default text"): what the argument parser makes of the string.
DefaultText == <<"d", "e", "f", "a", "u", "l", "t", " ", "t", "e", "x", "t">>

\* sys.argv[1:] of the submitter: nothing, a valid option, a json file
\* holding the option, an option without its value, an unknown option.
CliArgs == {<<>>, <<"--output_dir", "out">>, <<"args.json">>,
            <<"--output_dir">>, <<"--lr", "1">>}

\* job_input = sys.argv[1:] if len(sys.argv) > 1 else "default text"
JobInput(cli) == IF Len(cli) > 0 THEN cli ELSE DefaultText

\* The parser's two routes.  A json file yields its fields; the command
\* line parser raises unless the tokens are the one option and its value.
ParseArguments(args) ==
  IF Len(args) = 1 /\ EndsWith(args[1], ".json")
  THEN [ok |-> TRUE, output_dir |-> Some("out")]
  ELSE IF Len(args) = 2 /\ args[1] = "--output_dir"
  THEN [ok |-> TRUE, output_dir |-> Some(args[2])]
  ELSE [ok |-> FALSE, output_dir |-> None]

\* The statements of main up to the call of train(), in source order.
Program(v) ==
  IF v = "copa"
  THEN <<"ParseArgs", "LoadDataset", "Preprocess", "ConfigureModel",
         "ConfigureTrainer", "ResumeCheck", "Train">>
  ELSE <<"LoadDataset", "ParseArgs", "Preprocess", "ConfigureModel",
         "ConfigureTrainer", "Train">>

At(stmt) == tpc = "setup" /\ Program(variant)[ip] = stmt

SetMax(S) == CHOOSE n \in S : \A m \in S : m <= n

\* The directory of checkpoint n under the output directory.
CheckpointPath(folder, n) == PathJoin(folder, "checkpoint-" \o Decimal(n))

\* get_last_checkpoint(folder): the highest-numbered checkpoint, or None.
GetLastCheckpoint(folder, cps) ==
  IF DOMAIN cps = {} THEN None
  ELSE Some(CheckpointPath(folder, SetMax(DOMAIN cps)))

ResumeFieldNeverSet(last_checkpoint, field) == field

\* if last_checkpoint is not None:
\*     training_args.resume_from_checkpoint = last_checkpoint
ResumeField(last_checkpoint, field) ==
  IF last_checkpoint # None THEN last_checkpoint ELSE field

\* trainer.train(): called without a resume_from_checkpoint argument.
TrainResumeArg == None

\* Trainer.train(resume_from_checkpoint): the epoch the loop starts from.
StartEpoch(arg, folder, cps) ==
  IF arg = None THEN 0
  ELSE CHOOSE n \in DOMAIN cps : CheckpointPath(folder, n) = Val(arg)

ImprovesOrEqual(metric, best) == best = None \/ metric >= Val(best)

\* greater_is_better=True: the metric improves on the best so far.
Improves(metric, best) == best = None \/ metric > Val(best)

ShouldStopLate(counter) == counter > EarlyStoppingPatience

\* EarlyStoppingCallback(early_stopping_patience=10)
ShouldStop(counter) == counter >= EarlyStoppingPatience

NoCheckpoints == [n \in {} |-> 0]

\* The state of a process of main before its first statement.
ProcessStart ==
  /\ tpc = "setup"
  /\ ip = 1
  /\ failedAt = ""
  /\ stages = <<>>
  /\ output_dir = None
  /\ resume_from_checkpoint = None
  /\ train_arg = None
  /\ epoch = 0
  /\ best_metric = None
  /\ patience_counter = 0
  /\ startEpoch = 0
  /\ cpAtTrain = {}
  /\ evaluations = 0
  /\ bestSeen = None
  /\ streak = 0

TrainInit ==
  /\ variant \in Scripts
  /\ submit_arguments \in {JobInput(cli) : cli \in CliArgs}
  /\ checkpoints = NoCheckpoints
  /\ attempt = 0
  /\ ProcessStart

TrainOff ==
  /\ variant = "copa"
  /\ submit_arguments = <<>>
  /\ checkpoints = NoCheckpoints
  /\ attempt = 0
  /\ tpc = "off"
  /\ ip = 1
  /\ failedAt = ""
  /\ stages = <<>>
  /\ output_dir = None
  /\ resume_from_checkpoint = None
  /\ train_arg = None
  /\ epoch = 0
  /\ best_metric = None
  /\ patience_counter = 0
  /\ startEpoch = 0
  /\ cpAtTrain = {}
  /\ evaluations = 0
  /\ bestSeen = None
  /\ streak = 0

loopVars == <<epoch, best_metric, patience_counter, startEpoch, cpAtTrain,
              evaluations, bestSeen, streak>>

\* parser = HfArgumentParser(DataTrainingArguments) and the if/else that
\* parses submit_arguments; an exception ends the process.
ParseArgs ==
  /\ At("ParseArgs")
  /\ LET parsed == ParseArguments(submit_arguments) IN
       IF parsed.ok
       THEN /\ output_dir' = parsed.output_dir
            /\ stages' = Append(stages, "ArgsParsed")
            /\ ip' = ip + 1
            /\ UNCHANGED <<tpc, failedAt>>
       ELSE /\ tpc' = "failed"
            /\ failedAt' = "ParseArgs"
            /\ UNCHANGED <<output_dir, stages, ip>>
  /\ UNCHANGED <<variant, submit_arguments, resume_from_checkpoint, train_arg,
                 checkpoints, attempt, loopVars, alignVars, submitVars>>

\* tokenizer = AutoTokenizer.from_pretrained(...) and
\* raw_datasets = load_dataset(...); a failed fetch ends the process.
LoadDataset ==
  /\ At("LoadDataset")
  /\ \E fetched \in BOOLEAN :
       IF fetched
       THEN /\ stages' = Append(stages, "DatasetLoaded")
            /\ ip' = ip + 1
            /\ UNCHANGED <<tpc, failedAt>>
       ELSE /\ tpc' = "failed"
            /\ failedAt' = "LoadDataset"
            /\ UNCHANGED <<stages, ip>>
  /\ UNCHANGED <<variant, submit_arguments, output_dir, resume_from_checkpoint,
                 train_arg, checkpoints, attempt, loopVars, alignVars, submitVars>>

\* tokenized_datasets = preprocess_dataset(raw_datasets) / raw_datasets.map(...)
Preprocess ==
  /\ At("Preprocess")
  /\ stages' = Append(stages, "Preprocessed")
  /\ ip' = ip + 1
  /\ UNCHANGED <<variant, submit_arguments, tpc, failedAt, output_dir,
                 resume_from_checkpoint, train_arg, checkpoints, attempt,
                 loopVars, alignVars, submitVars>>

\* model = ...from_pretrained(...) (and the adapters of the ner script); a
\* failed fetch ends the process.
ConfigureModel ==
  /\ At("ConfigureModel")
  /\ \E fetched \in BOOLEAN :
       IF fetched
       THEN /\ stages' = Append(stages, "ModelConfigured")
            /\ ip' = ip + 1
            /\ UNCHANGED <<tpc, failedAt>>
       ELSE /\ tpc' = "failed"
            /\ failedAt' = "ConfigureModel"
            /\ UNCHANGED <<stages, ip>>
  /\ UNCHANGED <<variant, submit_arguments, output_dir, resume_from_checkpoint,
                 train_arg, checkpoints, attempt, loopVars, alignVars, submitVars>>

\* training_args = TrainingArguments(...) and trainer = Trainer(...): the
\* resume field is not among the arguments and keeps its default.
ConfigureTrainer ==
  /\ At("ConfigureTrainer")
  /\ resume_from_checkpoint' = None
  /\ ip' = ip + 1
  /\ UNCHANGED <<variant, submit_arguments, tpc, failedAt, stages, output_dir,
                 train_arg, checkpoints, attempt, loopVars, alignVars, submitVars>>

\* last_checkpoint = get_last_checkpoint(data_args.output_dir) and the
\* if/else on it (copa script only).
ResumeCheck ==
  /\ At("ResumeCheck")
  /\ resume_from_checkpoint' =
       ResumeField(GetLastCheckpoint(Val(output_dir), checkpoints),
                   resume_from_checkpoint)
  /\ ip' = ip + 1
  /\ UNCHANGED <<variant, submit_arguments, tpc, failedAt, stages, output_dir,
                 train_arg, checkpoints, attempt, loopVars, alignVars, submitVars>>

\* trainer.train(): the loop starts.
TrainCall ==
  /\ At("Train")
  /\ train_arg' = TrainResumeArg
  /\ startEpoch' = StartEpoch(train_arg', Val(output_dir), checkpoints)
  /\ epoch' = startEpoch'
  /\ cpAtTrain' = DOMAIN checkpoints
  /\ tpc' = "TrainingLoop"
  /\ stages' = Append(stages, "TrainingLoop")
  /\ UNCHANGED <<variant, submit_arguments, ip, failedAt, output_dir,
                 resume_from_checkpoint, checkpoints, attempt, best_metric,
                 patience_counter, evaluations, bestSeen, streak,
                 alignVars, submitVars>>

\* One epoch of the loop as TrainingArguments and the callback configure it
\* (eval_strategy and save_strategy "epoch", num_train_epochs,
\* metric_for_best_model with greater_is_better, early stopping): train the
\* epoch, evaluate, let the callback count, save the checkpoint and the best
\* metric, then stop or go on.
EpochStep ==
  /\ tpc = "TrainingLoop"
  /\ \E metric \in Metrics :
       LET counter == IF Improves(metric, best_metric) THEN 0
                      ELSE patience_counter + 1
       IN /\ epoch' = epoch + 1
          /\ evaluations' = evaluations + 1
          /\ patience_counter' = counter
          /\ checkpoints' = ((epoch + 1) :> attempt) @@ checkpoints
          /\ best_metric' = IF Improves(metric, best_metric) THEN Some(metric)
                            ELSE best_metric
          /\ bestSeen' = IF bestSeen = None \/ metric > Val(bestSeen)
                         THEN Some(metric) ELSE bestSeen
          /\ streak' = IF bestSeen = None \/ metric > Val(bestSeen)
                       THEN 0 ELSE streak + 1
          /\ tpc' = IF ShouldStop(counter) THEN "Stopped"
                    ELSE IF epoch + 1 >= NumTrainEpochs THEN "Completed"
                    ELSE "TrainingLoop"
  /\ UNCHANGED <<variant, submit_arguments, ip, failedAt, stages, output_dir,
                 resume_from_checkpoint, train_arg, attempt, startEpoch,
                 cpAtTrain, alignVars, submitVars>>

\* A failure in the middle of training: the exception propagates and the
\* process ends.
Fail ==
  /\ tpc = "TrainingLoop"
  /\ epoch <= MaxFailEpoch
  /\ tpc' = "failed"
  /\ failedAt' = "Train"
  /\ UNCHANGED <<variant, submit_arguments, ip, stages, output_dir,
                 resume_from_checkpoint, train_arg, checkpoints, attempt,
                 loopVars, alignVars, submitVars>>

\* The job is submitted again with the same arguments: a new process of
\* main, the output directory as the failed one left it.
Resubmit ==
  /\ tpc = "failed"
  /\ failedAt = "Train"
  /\ attempt < MaxRestarts
  /\ attempt' = attempt + 1
  /\ tpc' = "setup"
  /\ ip' = 1
  /\ failedAt' = ""
  /\ stages' = <<>>
  /\ output_dir' = None
  /\ resume_from_checkpoint' = None
  /\ train_arg' = None
  /\ epoch' = 0
  /\ best_metric' = None
  /\ patience_counter' = 0
  /\ startEpoch' = 0
  /\ cpAtTrain' = {}
  /\ evaluations' = 0
  /\ bestSeen' = None
  /\ streak' = 0
  /\ UNCHANGED <<variant, submit_arguments, checkpoints, alignVars, submitVars>>

(***************************************************************************)
(* The specifications.                                                     *)
(***************************************************************************)
\* One process of main, no failure while training.
LoopNext ==
  \/ ParseArgs
  \/ LoadDataset
  \/ Preprocess
  \/ ConfigureModel
  \/ ConfigureTrainer
  \/ ResumeCheck
  \/ TrainCall
  \/ EpochStep

InitTrain == AlignOff /\ SubmitOff /\ TrainInit

\* train() blocks until the loop ends: the loop keeps taking its next epoch.
LoopSpec == InitTrain /\ [][LoopNext]_vars /\ WF_vars(EpochStep)

TrainNext ==
  \/ ParseArgs
  \/ LoadDataset
  \/ Preprocess
  \/ ConfigureModel
  \/ ConfigureTrainer
  \/ ResumeCheck
  \/ TrainCall
  \/ EpochStep
  \/ Fail
  \/ Resubmit

\* main with failures while training and resubmissions of the job.
TrainSpec == InitTrain /\ [][TrainNext]_vars

SubmitNext ==
  \E p \in Procs :
    \/ LogRead(p)
    \/ LogWrite(p)
    \/ MakeDir(p)
    \/ BuildParameters(p)
    \/ Submit(p)
    \/ Crash(p)

SeqSubmitNext ==
  \E p \in Procs :
    \/ Turn(p) /\ LogRead(p)
    \/ Turn(p) /\ LogWrite(p)
    \/ Turn(p) /\ MakeDir(p)
    \/ Turn(p) /\ BuildParameters(p)
    \/ Turn(p) /\ Submit(p)
    \/ Turn(p) /\ Crash(p)

\* Submitter processes that may run concurrently.
InitSubmit == AlignOff /\ SubmitInit /\ TrainOff

SubmitSpec == InitSubmit /\ [][SubmitNext]_vars

\* Submitter processes run one after the other.
InitSeqSubmit == AlignOff /\ SeqSubmitInit /\ TrainOff

SeqSubmitSpec == InitSeqSubmit /\ [][SeqSubmitNext]_vars


AlignNext == AlignCall

InitAlign == AlignInit /\ SubmitOff /\ TrainOff

AlignSpec == InitAlign /\ [][AlignNext]_vars

\* C1: the aligned list has one label per token; a special token (word id
\* None) gets -100, the first token of a word (word id differs from the
\* previous token's, or first position) the word's tag unchanged, and a
\* continuation token the tag plus one when the tag is odd, the tag itself
\* otherwise; word ids [0,0,1,None] with tags [1,9] give [1,2,9,-100].
C1_AlignedLabels ==
  apc = "done" =>
    /\ Len(new_labels) = Len(word_ids)
    /\ \A i \in 1..Len(word_ids) :
         LET w == word_ids[i] IN
         IF w = None THEN new_labels[i] = -100
         ELSE LET tag == labels[Val(w) + 1] IN
              IF i = 1 \/ word_ids[i - 1] # w THEN new_labels[i] = tag
              ELSE IF tag % 2 = 1 THEN new_labels[i] = tag + 1
              ELSE new_labels[i] = tag
    /\ (word_ids = <<Some(0), Some(0), Some(1), None>> /\ labels = <<1, 9>>)
         => new_labels = <<1, 2, 9, -100>>

C1_Witness ==
  /\ apc = "done"
  /\ word_ids = <<Some(0), Some(0), Some(1), None>>
  /\ labels = <<1, 9>>
  /\ new_labels = <<1, 2, 9, -100>>

Range(s) == {s[i] : i \in 1..Len(s)}

QueuedBy(p) == {i \in 1..Len(queue) : queue[i].by = p}

Ended(p) == pc[p] \in {"done", "failed", "crashed"}

\* C2: in sequential runs of one job name every run obtains the counter of
\* the previous run plus one, and the directory <job_name>/<run_count:03d>
\* it makes was not used by an earlier run.
C2_SequentialRunCounts ==
  /\ \A i \in 2..Len(obtained) : obtained[i] = obtained[i - 1] + 1
  /\ \A i, j \in 1..Len(usedDirs) : i # j => usedDirs[i] # usedDirs[j]
  /\ \A p \in Procs :
       (experiments_dir[p] # None /\ Val(run_count[p]) < 10) =>
         EndsWith(Val(experiments_dir[p]),
                  "/" \o JobName(script, debug) \o "/00"
                      \o Digits[Val(run_count[p]) + 1])

C2_Witness ==
  /\ obtained = <<1, 2, 3>>
  /\ Len(usedDirs) = 3
  /\ \A p \in 1..3 : pc[p] = "done"

\* C3: with debug set the partition ends in _debug, the time budget is
\* 01:00:00, the job name starts with debug_ and the mail recipient is
\* empty; with debug unset the partition is gpu_p100, the time budget the
\* script's production one, the job name unprefixed and the recipient given.
C3_DebugDerivation ==
  \A p \in Procs :
    parameters[p] # None =>
      LET P == Val(parameters[p]) IN
      /\ \A i \in QueuedBy(p) : queue[i].parameters = P
      /\ IF debug
         THEN /\ EndsWith(P.slurm_partition, "_debug")
              /\ P.slurm_time = "01:00:00"
              /\ StartsWith(P.slurm_job_name, "debug_")
              /\ P.mail_user = ""
         ELSE /\ P.slurm_partition = "gpu_p100"
              /\ P.slurm_time = (IF script = "copa" THEN "02:30:00" ELSE "05:30:00")
              /\ ~StartsWith(P.slurm_job_name, "debug_")
              /\ P.slurm_job_name \in {"convergence_finetune_copa",
                                       "convergence_ner_adapter"}
              /\ P.mail_user = "stef.accou@student.kuleuven.be"

C3_Witness ==
  /\ debug
  /\ Len(queue) > 0
  /\ queue[1].parameters.slurm_partition = "gpu_p100_debug"
  /\ queue[1].parameters.mail_user = ""

\* C4: a submitter whose account variable is unset ends with a KeyError
\* where the parameters are built, and never hands a job to the executor.
C4_MissingAccountNoSubmit ==
  \A p \in Procs :
    environ[p] = None =>
      /\ QueuedBy(p) = {}
      /\ parameters[p] = None
      /\ pc[p] \notin {"submit", "done"}
      /\ pc[p] = "failed" => error[p] = "KeyError"

C4_Witness ==
  \E p \in Procs :
    /\ environ[p] = None
    /\ pc[p] = "failed"
    /\ error[p] = "KeyError"
    /\ experiments_dir[p] # None

SpecStageOrder ==
  <<"ArgsParsed", "DatasetLoaded", "Preprocessed", "ModelConfigured", "TrainingLoop">>

IsPrefix(s, t) == Len(s) <= Len(t) /\ \A i \in 1..Len(s) : s[i] = t[i]

\* C5: the stages are passed in the order ArgsParsed, DatasetLoaded,
\* Preprocessed, ModelConfigured, TrainingLoop, and a run whose arguments do
\* not parse fails in the parsing without a dataset loaded.
C5_ArgsBeforeDataset ==
  /\ IsPrefix(stages, SpecStageOrder)
  /\ "DatasetLoaded" \in Range(stages) => "ArgsParsed" \in Range(stages)
  /\ ~ParseArguments(submit_arguments).ok => "DatasetLoaded" \notin Range(stages)

TrainInvoked == "TrainingLoop" \in Range(stages)

\* C6: in the copa script, once train() is called the resume field holds
\* the path of the highest-numbered checkpoint that was under output_dir,
\* and is unset when there was none.
C6_ResumeField ==
  (variant = "copa" /\ TrainInvoked) =>
    IF cpAtTrain = {}
    THEN resume_from_checkpoint = None
    ELSE \E n \in cpAtTrain :
           /\ \A m \in cpAtTrain : m <= n
           /\ resume_from_checkpoint =
                Some(Val(output_dir) \o "/checkpoint-" \o Decimal(n))

C6_Witness ==
  /\ variant = "copa"
  /\ tpc = "TrainingLoop"
  /\ attempt = 1
  /\ cpAtTrain = {1, 2}
  /\ resume_from_checkpoint = Some("out/checkpoint-2")

\* C7: a resubmitted job that finds checkpoints under its output directory
\* passes the latest to train(), continues from its epoch, and leaves the
\* checkpoints it found as they were.
C7_ResumesFromCheckpoint ==
  (TrainInvoked /\ attempt > 0 /\ cpAtTrain # {}) =>
    /\ train_arg = Some(CheckpointPath(Val(output_dir), SetMax(cpAtTrain)))
    /\ startEpoch = SetMax(cpAtTrain)
    /\ \A n \in cpAtTrain : checkpoints[n] < attempt

C8_Safety ==
  /\ epoch <= 100
  /\ TrainInvoked => evaluations = epoch
  /\ tpc = "Stopped" => streak = 10
  /\ tpc = "TrainingLoop" => streak < 10 /\ epoch < 100
  /\ tpc = "Completed" => streak < 10 /\ epoch = 100

\* C8: the loop evaluates once per epoch and ends: Stopped as soon as 10
\* evaluations in a row have not improved on the best metric, Completed
\* after epoch 100 otherwise; never more than 100 epochs, never stopped
\* with fewer than 10 such evaluations.
C8_LoopTerminates ==
  /\ []C8_Safety
  /\ (tpc = "TrainingLoop") ~> (tpc \in {"Stopped", "Completed"})

C8_Witness ==
  /\ tpc = "Completed"
  /\ epoch = 100
  /\ bestSeen = Some(9)

\* C9: the directory creation never rejects a directory that exists, so
\* two submitters that read the same counter both go on with the same
\* experiment directory.
C9_CollisionUndetected ==
  /\ \A p \in Procs : error[p] # "FileExistsError"
  /\ \A p, q \in Procs :
       (/\ p # q
        /\ read_count[p] # None
        /\ read_count[p] = read_count[q]
        /\ experiments_dir[p] # None
        /\ experiments_dir[q] # None) =>
          /\ experiments_dir[p] = experiments_dir[q]
          /\ Val(experiments_dir[p]) \in fs

C9_Witness ==
  \E p, q \in Procs :
    /\ p # q
    /\ pc[p] = "done"
    /\ pc[q] = "done"
    /\ read_count[p] = read_count[q]
    /\ \E i \in QueuedBy(p), j \in QueuedBy(q) : queue[i].folder = queue[j].folder

\* C10: the counter is incremented before the directory is made and before
\* the account is read; a run that ends after the increment without a job
\* queued leaves it incremented, and later runs use the following numbers,
\* never that one.
C10_GapNoReuse ==
  /\ \A p \in Procs :
       (experiments_dir[p] # None \/ parameters[p] # None \/ error[p] = "KeyError")
         => (run_count[p] # None /\ log[JobName(script, debug)] >= Val(run_count[p]))
  /\ \A p \in Procs :
       (run_count[p] # None /\ pc[p] \in {"failed", "crashed"}) =>
         /\ log[JobName(script, debug)] >= Val(run_count[p])
         /\ QueuedBy(p) = {}
         /\ \A i \in 1..Len(queue) :
              queue[i].folder #
                ExperimentDir(JobName(script, debug), Val(run_count[p]))
  /\ \A p, q \in Procs :
       (p < q /\ run_count[p] # None /\ run_count[q] # None) =>
         Val(run_count[q]) > Val(run_count[p])
  /\ \A i \in 1..Len(obtained) : obtained[i] = i

C10_Witness ==
  \E p, q \in Procs :
    /\ pc[p] = "failed"
    /\ error[p] = "KeyError"
    /\ run_count[p] = Some(1)
    /\ pc[q] = "done"
    /\ run_count[q] = Some(2)
    /\ \A i \in 1..Len(queue) : queue[i].folder # ExperimentDir(JobName(script, debug), 1)

=============================================================================
